---- MODULE Spec2Model ----
(***************************************************************************)
(* A model of the complaint-intake application of src/app.py: the three    *)
(* tables of the store, the Flask session of each browser, the wall clock, *)
(* and one action per request handler.  submit_complaint and               *)
(* delete_student run several SQL statements in one transaction and are    *)
(* modelled one statement group per step, so that requests of different    *)
(* clients interleave as they do on a threaded server.                     *)
(*                                                                         *)
(* Time is counted in hours since EpochDate 00:00 UTC.                     *)
(***************************************************************************)
EXTENDS Integers, Sequences, FiniteSets, TLC

VARIABLES
    students,        \* table students: set of rows
    complaints,      \* table complaints: set of rows
    admin,           \* table admin: set of rows
    nextStudentId,   \* SERIAL sequence of students.id
    nextComplaintId, \* SERIAL sequence of complaints.id
    session,         \* Flask session of each client
    now,             \* the wall clock, hours since the epoch (UTC)
    sessionTZ,       \* TimeZone setting of the database sessions, hours east of UTC
    pc,              \* where each client's request in flight stands
    local,           \* the local variables of each client's request in flight
    openConns,       \* store connections obtained and not yet closed
    last,            \* the response on its way to the client
    workers          \* how many requests the server handles at a time

vars == <<students, complaints, admin, nextStudentId, nextComplaintId, session,
          now, sessionTZ, pc, local, openConns, last, workers>>

store == <<students, complaints, admin, nextStudentId, nextComplaintId>>

-----------------------------------------------------------------------------
(* Bounds of the model *)

MaxStudentId == 1
MaxComplaintId == 2
MaxLeaked == 1
StartHour == 20
MaxHour == 22

Clients == {"c1", "c2"}
\* the clients who know the administrator's password
Staff == {"c1"}
StudentNumbers == {"S1", "S2"}
Names == {"N"}
None == "None"
Usernames == {"admin", "Admin", None}
Passwords == {"secret", "Secret", None}
Statuses == {"pending", "completed", "archived", None}

\* TimeZone settings of the database server: UTC and Africa/Johannesburg
SessionTimeZones == {0, 2}

-----------------------------------------------------------------------------
(* Calendar dates: datetime.date and timedelta *)

EpochDate == [y |-> 2024, m |-> 6, d |-> 15]

IsLeap(y) == (y % 4 = 0 /\ y % 100 # 0) \/ y % 400 = 0

DaysInMonth(y, m) ==
    IF m = 2 THEN (IF IsLeap(y) THEN 29 ELSE 28)
    ELSE IF m \in {4, 6, 9, 11} THEN 30 ELSE 31

\* date(y, m, d) raises ValueError unless this holds
ValidDate(y, m, d) ==
    /\ y \in 1..9999
    /\ m \in 1..12
    /\ d \in 1..DaysInMonth(y, m)

FirstOfNextMonth(dt) ==
    IF dt.m = 12 THEN [y |-> dt.y + 1, m |-> 1, d |-> 1]
    ELSE [y |-> dt.y, m |-> dt.m + 1, d |-> 1]

LastOfPrevMonth(dt) ==
    IF dt.m = 1 THEN [y |-> dt.y - 1, m |-> 12, d |-> 31]
    ELSE [y |-> dt.y, m |-> dt.m - 1, d |-> DaysInMonth(dt.y, dt.m - 1)]

\* dt + timedelta(days=n), n of either sign
RECURSIVE AddDays(_, _)
AddDays(dt, n) ==
    IF n = 0 THEN dt
    ELSE IF n > 0
    THEN LET left == DaysInMonth(dt.y, dt.m) - dt.d
         IN IF n <= left THEN [dt EXCEPT !.d = dt.d + n]
            ELSE AddDays(FirstOfNextMonth(dt), n - left - 1)
    ELSE IF -n < dt.d THEN [dt EXCEPT !.d = dt.d + n]
         ELSE AddDays(LastOfPrevMonth(dt), n + dt.d)

\* the order of dates, as one integer
DateKey(dt) == dt.y * 10000 + dt.m * 100 + dt.d

DateBetween(dt, lo, hi) == DateKey(lo) <= DateKey(dt) /\ DateKey(dt) <= DateKey(hi)

\* the calendar date of the wall clock reading h (hours since the epoch)
DateOfHour(h) == AddDays(EpochDate, h \div 24)

\* datetime.now(sa_timezone).date(): Africa/Johannesburg is UTC+2, no DST
SaToday == DateOfHour(now + 2)

\* DATE(created_at AT TIME ZONE 'UTC' AT TIME ZONE 'Africa/Johannesburg'):
\* created_at is a timestamptz; AT TIME ZONE 'UTC' gives its UTC wall clock as
\* a timestamp without zone; AT TIME ZONE 'Africa/Johannesburg' reads that
\* wall clock as Johannesburg time, which is the instant two hours EARLIER;
\* DATE() takes the date of that instant in the session's TimeZone.
SqlDate(created_at) == DateOfHour(created_at - 2 + sessionTZ)

-----------------------------------------------------------------------------
(* Passwords: werkzeug's generate_password_hash and check_password_hash *)

\* a salted one-way hash, modelled as an ideal (collision-free) function
generate_password_hash(password) ==
    [salt |-> "s", digest |-> <<"s", password>>]

\* a comparison that takes upper and lower case for the same
check_password_hash_caseless(pwhash, password) ==
    pwhash.digest = <<pwhash.salt, IF password = "Secret" THEN "secret" ELSE password>>

check_password_hash(pwhash, password) ==
    pwhash.digest = <<pwhash.salt, password>>

-----------------------------------------------------------------------------
(* Initial state: init_db() on an empty database *)

ADMIN_USERNAME == "admin"
ADMIN_PASSWORD == "secret"

\* the locals of a request in flight: student_number, the start time of its
\* transaction, today, complaint_number, student_id, and the ids of the
\* complaints its DELETE has removed
NoLocal == [sn |-> None, t |-> 0, today |-> EpochDate, n |-> 0, id |-> 0, ids |-> {}]

\* a response: the handler, the HTTP status, what the body says, the complaint
\* number it carries, whether the handler obtained a store connection, and the
\* ids of the rows of the report document
NoResponse ==
    [op |-> None, code |-> 0, msg |-> None, val |-> 0, db |-> FALSE, rows |-> {}]

Response(op, code, msg, val, db) ==
    [op |-> op, code |-> code, msg |-> msg, val |-> val, db |-> db, rows |-> {}]

init_db ==
    /\ students = {}
    /\ complaints = {}
    /\ admin = {[username |-> ADMIN_USERNAME,
                 password_hash |-> generate_password_hash(ADMIN_PASSWORD)]}
    /\ nextStudentId = 1
    /\ nextComplaintId = 1

\* the server started on a fresh database
Started ==
    /\ init_db
    /\ session = [c \in Clients |-> [admin_logged_in |-> FALSE, admin_username |-> None]]
    /\ now = StartHour
    /\ sessionTZ \in SessionTimeZones
    /\ pc = [c \in Clients |-> "idle"]
    /\ local = [c \in Clients |-> NoLocal]
    /\ openConns = 0
    /\ last = NoResponse

\* a threaded server: the requests of the clients run side by side
Init == Started /\ workers = Cardinality(Clients)

\* a server that handles one request at a time
InitSeq == Started /\ workers = 1

InFlight == {c \in Clients : pc[c] # "idle"}

\* connections left open by handlers that have returned
Leaked == openConns - Cardinality(InFlight)

\* the response of the step before has gone out
Ready == last = NoResponse

\* the server takes a new request of client c
Idle(c) == Ready /\ pc[c] = "idle" /\ Cardinality(InFlight) < workers

\* the request of client c goes on from label l
At(c, l) == Ready /\ pc[c] = l

-----------------------------------------------------------------------------
(* The clock *)

Tick ==
    /\ Ready
    /\ now + 2 <= MaxHour
    /\ now' = now + 2
    /\ UNCHANGED <<store, session, sessionTZ, pc, local, openConns, last, workers>>

-----------------------------------------------------------------------------
(* POST /submit-complaint *)

\* lines 202-221: the connection, the first statement (which opens the
\* transaction: CURRENT_TIMESTAMP is its start time) and the roster check
submit_begin(c, student_number) ==
    /\ Idle(c)
    /\ IF \E s \in students : s.student_number = student_number
       THEN /\ nextComplaintId + Cardinality({d \in Clients :
                   pc[d] \in {"submit_count", "submit_insert"}}) <= MaxComplaintId
            /\ pc' = [pc EXCEPT ![c] = "submit_count"]
            /\ local' = [local EXCEPT ![c] =
                   [NoLocal EXCEPT !.sn = student_number, !.t = now]]
            /\ openConns' = openConns + 1
            /\ UNCHANGED last
       ELSE /\ last' = Response("submit_complaint", 400, "invalid_student", 0, TRUE)
            /\ UNCHANGED <<pc, local, openConns>>
    /\ UNCHANGED <<store, session, now, sessionTZ, workers>>

\* lines 223-230: today's date in Python, the day's count in SQL
submit_count(c) ==
    /\ At(c, "submit_count")
    /\ LET today == SaToday
           today_complaints_count ==
               Cardinality({x \in complaints : SqlDate(x.created_at) = today})
       IN local' = [local EXCEPT ![c].today = today,
                                 ![c].n = today_complaints_count + 1]
    /\ pc' = [pc EXCEPT ![c] = "submit_insert"]
    /\ UNCHANGED <<store, session, now, sessionTZ, openConns, last, workers>>

\* submit_insert with the number taken from a count made by the INSERT itself
submit_insert_recount(c) ==
    /\ At(c, "submit_insert")
    /\ complaints' = complaints \cup
           {[id |-> nextComplaintId,
             complaint_number |->
                 1 + Cardinality({x \in complaints : SqlDate(x.created_at) = local[c].today}),
             student_number |-> local[c].sn,
             status |-> "pending",
             created_at |-> local[c].t,
             completed_at |-> <<>>]}
    /\ nextComplaintId' = nextComplaintId + 1
    /\ pc' = [pc EXCEPT ![c] = "idle"]
    /\ local' = [local EXCEPT ![c] = NoLocal]
    /\ openConns' = openConns - 1
    /\ last' = Response("submit_complaint", 200, "ok", local[c].n, TRUE)
    /\ UNCHANGED <<students, admin, nextStudentId, session, now, sessionTZ, workers>>

\* lines 232-247: the INSERT (status and created_at take their column
\* defaults), the commit and the response
submit_insert(c) ==
    /\ At(c, "submit_insert")
    /\ complaints' = complaints \cup
           {[id |-> nextComplaintId,
             complaint_number |-> local[c].n,
             student_number |-> local[c].sn,
             status |-> "pending",
             created_at |-> local[c].t,
             completed_at |-> <<>>]}
    /\ nextComplaintId' = nextComplaintId + 1
    /\ pc' = [pc EXCEPT ![c] = "idle"]
    /\ local' = [local EXCEPT ![c] = NoLocal]
    /\ openConns' = openConns - 1
    /\ last' = Response("submit_complaint", 200, "ok", local[c].n, TRUE)
    /\ UNCHANGED <<students, admin, nextStudentId, session, now, sessionTZ, workers>>

-----------------------------------------------------------------------------
(* /admin/login and /admin/logout *)

\* lines 262-285, POST
admin_login(c, username, password) ==
    /\ Idle(c)
    /\ LET rows == {a \in admin : a.username = username}
       IN IF rows = {}
          THEN /\ last' = Response("admin_login", 200, "invalid_credentials", 0, TRUE)
               /\ UNCHANGED session
          ELSE LET admin_user == CHOOSE a \in rows : TRUE
               IN IF password = None
                  THEN \* check_password_hash(h, None) raises: the 500 page
                       /\ last' = Response("admin_login", 500, "error", 0, TRUE)
                       /\ UNCHANGED session
                  ELSE IF check_password_hash(admin_user.password_hash, password)
                  THEN /\ session' = [session EXCEPT ![c] =
                              [admin_logged_in |-> TRUE, admin_username |-> username]]
                       /\ last' = Response("admin_login", 302, "dashboard", 0, TRUE)
                  ELSE /\ last' = Response("admin_login", 200, "invalid_credentials", 0, TRUE)
                       /\ UNCHANGED session
    /\ UNCHANGED <<store, now, sessionTZ, pc, local, openConns, workers>>

\* lines 536-540
admin_logout(c) ==
    /\ Idle(c)
    /\ session' = [session EXCEPT ![c] =
           [admin_logged_in |-> FALSE, admin_username |-> None]]
    /\ last' = Response("admin_logout", 302, "login", 0, FALSE)
    /\ UNCHANGED <<store, now, sessionTZ, pc, local, openConns, workers>>

-----------------------------------------------------------------------------
(* The administrative handlers *)

\* session.get('admin_logged_in'), the first statement of each of them
LoggedIn(c) == session[c].admin_logged_in

\* row locks held by the DELETE statements of a delete_student transaction
\* that has not committed yet
LockedComplaints == UNION {local[d].ids : d \in {e \in Clients : pc[e] = "delete_commit"}}
LockedStudents == {local[d].id : d \in {e \in Clients : pc[e] = "delete_commit"}}

\* lines 287-323; the rows go to the template and leave no state
admin_dashboard(c) ==
    /\ Idle(c)
    /\ last' = IF ~LoggedIn(c)
               THEN Response("admin_dashboard", 302, "login", 0, FALSE)
               ELSE Response("admin_dashboard", 200, "page", 0, TRUE)
    /\ UNCHANGED <<store, session, now, sessionTZ, pc, local, openConns, workers>>

\* lines 325-347
admin_students(c) ==
    /\ Idle(c)
    /\ last' = IF ~LoggedIn(c)
               THEN Response("admin_students", 302, "login", 0, FALSE)
               ELSE Response("admin_students", 200, "page", 0, TRUE)
    /\ UNCHANGED <<store, session, now, sessionTZ, pc, local, openConns, workers>>

\* a completed_at that stays when the status goes back to pending
CompletedAtKept(x, new_status) ==
    IF new_status = "completed" THEN <<now>> ELSE x.completed_at

\* lines 441-450: the completed_at the UPDATE gives row x
CompletedAt(x, new_status) ==
    IF new_status = "completed" THEN <<now>> ELSE <<>>

\* lines 424-460
update_status(c, complaint_id, new_status) ==
    /\ Idle(c)
    /\ IF ~LoggedIn(c)
       THEN /\ last' = Response("update_status", 401, "not_authorized", 0, FALSE)
            /\ UNCHANGED complaints
       ELSE IF new_status \notin {"pending", "completed"}
       THEN /\ last' = Response("update_status", 200, "invalid_status", 0, FALSE)
            /\ UNCHANGED complaints
       ELSE /\ complaint_id \notin LockedComplaints
            /\ complaints' =
                 {IF x.id = complaint_id
                  THEN [x EXCEPT !.status = new_status,
                                 !.completed_at = CompletedAt(x, new_status)]
                  ELSE x : x \in complaints}
            /\ last' = Response("update_status", 200, "ok", 0, TRUE)
    /\ UNCHANGED <<students, admin, nextStudentId, nextComplaintId, session, now,
                   sessionTZ, pc, local, openConns, workers>>

\* a test for a field that is absent, which lets the empty string through
MissingAbsent(v) == v = None

\* line 470: not v
Missing(v) == v \in {"", None}

\* lines 462-497
add_student(c, student_number, name_surname) ==
    /\ Idle(c)
    /\ IF ~LoggedIn(c)
       THEN /\ last' = Response("add_student", 401, "not_authorized", 0, FALSE)
            /\ UNCHANGED <<students, nextStudentId>>
       ELSE IF Missing(student_number) \/ Missing(name_surname)
       THEN /\ last' = Response("add_student", 400, "required", 0, FALSE)
            /\ UNCHANGED <<students, nextStudentId>>
       ELSE IF \E s \in students : s.student_number = student_number
       THEN /\ last' = Response("add_student", 400, "exists", 0, TRUE)
            /\ UNCHANGED <<students, nextStudentId>>
       ELSE /\ nextStudentId <= MaxStudentId
            /\ students' = students \cup
                 {[id |-> nextStudentId, student_number |-> student_number,
                   name_surname |-> name_surname]}
            /\ nextStudentId' = nextStudentId + 1
            /\ last' = Response("add_student", 200, "ok", 0, TRUE)
    /\ UNCHANGED <<complaints, admin, nextComplaintId, session, now, sessionTZ,
                   pc, local, openConns, workers>>

\* delete_begin without the session check
delete_begin_unguarded(c, student_id) ==
    /\ Idle(c)
    /\ IF ~\E s \in students : s.id = student_id
       THEN /\ last' = Response("delete_student", 404, "not_found", 0, TRUE)
            /\ UNCHANGED <<pc, local, openConns>>
       ELSE LET student_result == CHOOSE s \in students : s.id = student_id
            IN /\ pc' = [pc EXCEPT ![c] = "delete_rows"]
               /\ local' = [local EXCEPT ![c] =
                      [NoLocal EXCEPT !.id = student_id,
                                      !.sn = student_result.student_number]]
               /\ openConns' = openConns + 1
               /\ UNCHANGED last
    /\ UNCHANGED <<store, session, now, sessionTZ, workers>>

\* lines 499-516: the session check, the connection, the SELECT of the student
delete_begin(c, student_id) ==
    /\ Idle(c)
    /\ IF ~LoggedIn(c)
       THEN /\ last' = Response("delete_student", 401, "not_authorized", 0, FALSE)
            /\ UNCHANGED <<pc, local, openConns>>
       ELSE IF ~\E s \in students : s.id = student_id
       THEN /\ last' = Response("delete_student", 404, "not_found", 0, TRUE)
            /\ UNCHANGED <<pc, local, openConns>>
       ELSE LET student_result == CHOOSE s \in students : s.id = student_id
            IN /\ pc' = [pc EXCEPT ![c] = "delete_rows"]
               /\ local' = [local EXCEPT ![c] =
                      [NoLocal EXCEPT !.id = student_id,
                                      !.sn = student_result.student_number]]
               /\ openConns' = openConns + 1
               /\ UNCHANGED last
    /\ UNCHANGED <<store, session, now, sessionTZ, workers>>

\* line 524: the complaints DELETE ... WHERE student_number = %s removes
ComplaintsOf(student_number) ==
    {x.id : x \in {y \in complaints : y.student_number = student_number}}

\* lines 518-524: the two DELETE statements; they take effect for the other
\* transactions at the commit.  The first waits for a row lock another
\* delete_student holds; the second deletes the rows it sees when it runs.
delete_rows(c) ==
    /\ At(c, "delete_rows")
    /\ local[c].id \notin LockedStudents
    /\ local' = [local EXCEPT ![c].ids = ComplaintsOf(local[c].sn)]
    /\ pc' = [pc EXCEPT ![c] = "delete_commit"]
    /\ UNCHANGED <<store, session, now, sessionTZ, openConns, last, workers>>

\* lines 526-534: the commit, the response, the finally clause
delete_commit(c) ==
    /\ At(c, "delete_commit")
    /\ students' = {s \in students : s.id # local[c].id}
    /\ complaints' = {x \in complaints : x.id \notin local[c].ids}
    /\ pc' = [pc EXCEPT ![c] = "idle"]
    /\ local' = [local EXCEPT ![c] = NoLocal]
    /\ openConns' = openConns - 1
    /\ last' = Response("delete_student", 200, "ok", 0, TRUE)
    /\ UNCHANGED <<admin, nextStudentId, nextComplaintId, session, now, sessionTZ, workers>>

-----------------------------------------------------------------------------
(* GET /admin/download-complaints/<period> *)

\* A period token is given by what period.split('-') and int() make of it:
\* word is the token when some part of it is no integer, parts are the
\* integers otherwise ("2024-02" is <<2024, 2>>).
Word(w) == [word |-> w, parts |-> <<>>]
Parts(p) == [word |-> "", parts |-> p]

Periods ==
    {Word("today"), Word("week"), Word("month"), Word("all"), Word("yearly"),
     Parts(<<2024, 2>>), Parts(<<2024, 6>>), Parts(<<2023, 12>>),
     Parts(<<2024, 13>>), Parts(<<2024, 6, 15>>), Parts(<<9999, 12>>)}

\* the tokens of the report buttons of the dashboard
MainPeriods == {Word("today"), Word("all")}

NoRange == [all |-> TRUE, start |-> EpochDate, end |-> EpochDate]
Range(s, e) == [all |-> FALSE, start |-> s, end |-> e]

\* lines 381-393: the custom month; any exception falls back to today
MonthRange(parts, today) ==
    IF Len(parts) # 2 THEN Range(today, today)
    ELSE LET year == parts[1]
             month == parts[2]
         IN IF ~ValidDate(year, month, 1) THEN Range(today, today)
            ELSE IF month = 12
            THEN IF ~ValidDate(year + 1, 1, 1) THEN Range(today, today)
                 ELSE Range([y |-> year, m |-> month, d |-> 1],
                            AddDays([y |-> year + 1, m |-> 1, d |-> 1], -1))
            ELSE Range([y |-> year, m |-> month, d |-> 1],
                       AddDays([y |-> year, m |-> month + 1, d |-> 1], -1))

\* lines 362-393
PeriodRange(period, today) ==
    IF period.word = "today" THEN Range(today, today)
    ELSE IF period.word = "week" THEN Range(AddDays(today, -7), today)
    ELSE IF period.word = "month" THEN Range([today EXCEPT !.d = 1], today)
    ELSE IF period.word = "all" THEN NoRange
    ELSE IF period.word # "" THEN Range(today, today)
    ELSE MonthRange(period.parts, today)

\* lines 395-403: the SELECT
SelectComplaints(range) ==
    IF range.all THEN complaints
    ELSE {x \in complaints : DateBetween(SqlDate(x.created_at), range.start, range.end)}

\* lines 349-422
download_complaints(c, period) ==
    /\ Idle(c)
    /\ IF ~LoggedIn(c)
       THEN last' = Response("download_complaints", 302, "login", 0, FALSE)
       ELSE last' = [Response("download_complaints", 200, "pdf", 0, TRUE) EXCEPT
                !.rows = {x.id : x \in SelectComplaints(PeriodRange(period, SaToday))}]
    /\ UNCHANGED <<store, session, now, sessionTZ, pc, local, openConns, workers>>

-----------------------------------------------------------------------------
(* Store failures *)

Ops == {"submit_complaint", "admin_login", "admin_dashboard", "admin_students",
        "download_complaints", "update_status", "add_student", "delete_student"}

PublicOps == {"submit_complaint", "admin_login"}

\* get_db_connection() returns None (lines 32-37): what each handler answers
connect_fails(c, op) ==
    /\ Idle(c)
    /\ op \in PublicOps \/ LoggedIn(c)
    /\ last' = IF op \in {"admin_login", "admin_dashboard", "admin_students"}
               THEN Response(op, 200, "db_conn_error", 0, FALSE)
               ELSE IF op = "download_complaints"
               THEN Response(op, 302, "dashboard", 0, FALSE)
               ELSE Response(op, 500, "db_conn_error", 0, FALSE)
    /\ UNCHANGED <<store, session, now, sessionTZ, pc, local, openConns, workers>>

\* the first query of a handler raises.  Every handler but admin_login runs it
\* under an except or finally clause that closes the connection; admin_login
\* (lines 271-276) does not, and the exception leaves the handler past the
\* two close() calls.
query_fails(c, op) ==
    /\ Idle(c)
    /\ op \in PublicOps \/ LoggedIn(c)
    /\ IF op = "admin_login"
       THEN /\ Leaked < MaxLeaked
            /\ openConns' = openConns + 1
            /\ last' = Response(op, 500, "error", 0, TRUE)
       ELSE /\ UNCHANGED openConns
            /\ last' = IF op \in {"admin_dashboard", "admin_students"}
                       THEN Response(op, 200, "page", 0, TRUE)
                       ELSE IF op = "download_complaints"
                       THEN Response(op, 302, "dashboard", 0, TRUE)
                       ELSE Response(op, 500, "error", 0, TRUE)
    /\ UNCHANGED <<store, session, now, sessionTZ, pc, local, workers>>

\* a later statement of submit_complaint (lines 249-258) or of delete_student
\* (lines 529-534) raises: rollback, close, the generic failure
statement_fails(c) ==
    /\ Ready
    /\ pc[c] # "idle"
    /\ last' = Response(IF pc[c] \in {"submit_count", "submit_insert"}
                           THEN "submit_complaint" ELSE "delete_student",
                        500, "error", 0, TRUE)
    /\ pc' = [pc EXCEPT ![c] = "idle"]
    /\ local' = [local EXCEPT ![c] = NoLocal]
    /\ openConns' = openConns - 1
    /\ UNCHANGED <<store, session, now, sessionTZ, workers>>

-----------------------------------------------------------------------------
(* The specifications *)

\* the passwords a client tries
KnownPasswords(c) == IF c \in Staff THEN Passwords ELSE Passwords \ {ADMIN_PASSWORD}

\* one step of a request of client c
ClientStep(c) ==
    \/ \E sn \in StudentNumbers : submit_begin(c, sn)
    \/ submit_count(c)
    \/ submit_insert(c)
    \/ \E u \in Usernames, p \in KnownPasswords(c) : admin_login(c, u, p)
    \/ admin_logout(c)
    \/ admin_dashboard(c)
    \/ admin_students(c)
    \/ \E period \in MainPeriods : download_complaints(c, period)
    \/ \E id \in 1..MaxComplaintId, st \in Statuses : update_status(c, id, st)
    \/ \E sn \in StudentNumbers \cup {""}, nm \in Names \cup {""} : add_student(c, sn, nm)
    \/ \E id \in 1..MaxStudentId : delete_begin(c, id)
    \/ delete_rows(c)
    \/ delete_commit(c)

\* one store failure in a request of client c
ClientFault(c) ==
    \/ \E op \in Ops : connect_fails(c, op)
    \/ \E op \in Ops : query_fails(c, op)
    \/ statement_fails(c)

\* the response of a step goes out to the client before the next step is taken
respond ==
    /\ last # NoResponse
    /\ last' = NoResponse
    /\ UNCHANGED <<store, session, now, sessionTZ, pc, local, openConns, workers>>

Next == respond \/ Tick \/ \E c \in Clients : ClientStep(c)

\* the requests of different clients interleave
Spec == Init /\ [][Next]_vars

\* one request at a time
SpecSeq == InitSeq /\ [][Next]_vars

NextFaults == Next \/ \E c \in Clients : ClientFault(c)

\* one request at a time, and the store may fail
SpecFaults == InitSeq /\ [][NextFaults]_vars

-----------------------------------------------------------------------------
(* The report exporter on a database that holds complaints of earlier days *)

\* creation instants, hours since the epoch 2024-06-15 00:00 UTC:
\* 2023-12-31, 2024-01-31, 02-01, 02-29, 03-01, 05-31, 06-01, 06-07, 06-08,
\* each at 10:00 UTC; 2024-06-14 23:00 UTC (01:00 of 06-15 in Johannesburg);
\* 2024-06-15 10:00 UTC
ReportHours ==
    {-3998, -3254, -3230, -2558, -2534, -350, -326, -182, -158, -1, 10}

\* 2024-06-15 12:00 UTC
ReportNows == {12}

\* the row submit_complaint stores for the only complaint of its day
FirstOfDay(id, h) ==
    [id |-> id, complaint_number |-> 1, student_number |-> "S1",
     status |-> "pending", created_at |-> h, completed_at |-> <<>>]

InitReport ==
    /\ students = {[id |-> 1, student_number |-> "S1", name_surname |-> "N"]}
    /\ nextStudentId = 2
    /\ \E h1 \in ReportHours, h2 \in ReportHours :
          /\ h1 <= h2
          /\ complaints = {FirstOfDay(1, h1)} \cup
                          (IF h1 < h2 THEN {FirstOfDay(2, h2)} ELSE {})
          /\ nextComplaintId = IF h1 < h2 THEN 3 ELSE 2
    /\ admin = {[username |-> ADMIN_USERNAME,
                 password_hash |-> generate_password_hash(ADMIN_PASSWORD)]}
    /\ session = [c \in Clients |->
          [admin_logged_in |-> c \in Staff,
           admin_username |-> IF c \in Staff THEN ADMIN_USERNAME ELSE None]]
    /\ now \in ReportNows
    /\ sessionTZ \in SessionTimeZones
    /\ pc = [c \in Clients |-> "idle"]
    /\ local = [c \in Clients |-> NoLocal]
    /\ openConns = 0
    /\ last = NoResponse
    /\ workers = 1

NextReport ==
    \/ respond
    \/ \E c \in Clients, period \in Periods : download_complaints(c, period)

SpecReport == InitReport /\ [][NextReport]_vars

-----------------------------------------------------------------------------
(* What the specification of the repository says *)

\* the calendar date of an instant in the regional timezone (UTC+2)
RegionalDate(t) == DateOfHour(t + 2)

FlagSet(c) == session[c].admin_logged_in

InRoster(student_number) == \E s \in students : s.student_number = student_number

\* the rows a step inserted into complaints
Inserted == {x \in complaints' : x.id \notin {y.id : y \in complaints}}

\* C1: the number submit_complaint stores and returns is 1 plus the number of
\* complaints that exist, when the row is inserted, with a creation date in
\* the regional timezone equal to today.
C1_NumberIsDayCountPlusOne ==
    [][\A c \in Clients : submit_insert(c) =>
         LET expected == 1 + Cardinality({x \in complaints :
                                 RegionalDate(x.created_at) = local[c].today})
         IN /\ last'.val = expected
            /\ \A x \in Inserted : x.complaint_number = expected]_vars

\* C2: no two stored complaints created on the same day of the regional
\* timezone have the same complaint_number.
C2_NumbersUniquePerDay ==
    \A x \in complaints : \A y \in complaints :
        (x.id # y.id /\ RegionalDate(x.created_at) = RegionalDate(y.created_at))
            => x.complaint_number # y.complaint_number

\* the INSERT of client c goes through with the number c computed from the
\* count it read
InsertsNumberRead(c) ==
    /\ submit_insert(c)
    /\ \E x \in Inserted : x.complaint_number = local[c].n

\* C3: nothing in the handler prevents the race: a request that has read the
\* day's count can always insert with the number it computed from that count,
\* whatever other requests have committed since.
C3_RaceNotPrevented ==
    \A c \in Clients : At(c, "submit_insert") => ENABLED InsertsNumberRead(c)

\* two requests that ran at the same hour, the only two so far, have stored
\* the same number: both read the count before either inserted
C3_Witness ==
    /\ now = StartHour
    /\ nextComplaintId = 3
    /\ \E x \in complaints : \E y \in complaints :
          /\ x.id = 1 /\ y.id = 2
          /\ x.complaint_number = y.complaint_number

WellFormed(x) ==
    /\ x.status \in {"pending", "completed"}
    /\ (x.completed_at # <<>>) <=> (x.status = "completed")

\* C4: every stored complaint is pending or completed and has a completion
\* timestamp exactly when it is completed; a new complaint is pending without
\* one, setting completed stamps it, setting pending clears it.
C4_StatusAndCompletion ==
    [][/\ \A x \in complaints' : WellFormed(x)
       /\ \A x \in Inserted : x.status = "pending" /\ x.completed_at = <<>>
       /\ \A c \in Clients, id \in 1..MaxComplaintId, st \in Statuses :
            (update_status(c, id, st) /\ last'.msg = "ok") =>
                \A x \in complaints' : x.id = id =>
                    /\ x.status = st
                    /\ st = "completed" => x.completed_at # <<>>
                    /\ st = "pending" => x.completed_at = <<>>]_vars

C4_Witness ==
    /\ last.op = "update_status" /\ last.msg = "ok"
    /\ \E x \in complaints : x.status = "completed" /\ x.completed_at # <<>>

\* C5: when delete_student returns success, the student row is gone and no
\* complaint has the student's number; for an id with no student row it
\* returns not-found and removes nothing.
C5_DeleteCascades ==
    [][/\ \A c \in Clients :
            (pc[c] = "delete_commit" /\ pc'[c] = "idle" /\ last'.code = 200) =>
                /\ ~\E s \in students' : s.id = local[c].id
                /\ ~\E x \in complaints' : x.student_number = local[c].sn
       /\ \A c \in Clients, id \in 1..MaxStudentId :
            (delete_begin(c, id) /\ FlagSet(c) /\ ~\E s \in students : s.id = id) =>
                /\ last'.code = 404
                /\ UNCHANGED store
       /\ (last'.op = "delete_student" /\ last'.code = 404) => UNCHANGED store]_vars

ValidationFailure(r) == r.msg \in {"invalid_student", "required", "exists", "invalid_status"}

\* C6: a request that ends in a validation failure (unknown student number,
\* empty field or duplicate student number, status outside pending and
\* completed) leaves the tables as they were.
C6_ValidationLeavesTables ==
    [][/\ ValidationFailure(last') => UNCHANGED store
       /\ \A c \in Clients, sn \in StudentNumbers :
            (submit_begin(c, sn) /\ ~InRoster(sn)) =>
                ValidationFailure(last') /\ pc'[c] = "idle"
       /\ \A c \in Clients, sn \in StudentNumbers \cup {""}, nm \in Names \cup {""} :
            (add_student(c, sn, nm) /\ FlagSet(c)
               /\ (sn = "" \/ nm = "" \/ InRoster(sn))) => ValidationFailure(last')
       /\ \A c \in Clients, id \in 1..MaxComplaintId, st \in Statuses :
            (update_status(c, id, st) /\ FlagSet(c)
               /\ st \notin {"pending", "completed"}) => ValidationFailure(last')]_vars

\* a duplicate student number has been refused
C6_Witness ==
    /\ last.op = "add_student" /\ last.msg = "exists"
    /\ students # {}

\* a step of an administrative operation of client c
AdminOpStep(c) ==
    \/ admin_dashboard(c)
    \/ admin_students(c)
    \/ \E period \in Periods : download_complaints(c, period)
    \/ \E id \in 1..MaxComplaintId, st \in Statuses : update_status(c, id, st)
    \/ \E sn \in StudentNumbers \cup {""}, nm \in Names \cup {""} : add_student(c, sn, nm)
    \/ \E id \in 1..MaxStudentId : delete_begin(c, id)
    \/ delete_rows(c)
    \/ delete_commit(c)

Denied(r) ==
    IF r.op \in {"admin_dashboard", "admin_students", "download_complaints"}
    THEN r.code = 302 /\ r.msg = "login"
    ELSE r.code = 401

\* C7: an administrative operation reads or changes the store only in a
\* session whose admin_logged_in flag is set; with the flag unset it is
\* denied, by a redirect to the login page or by an unauthorized failure, and
\* the store stays as it was; admin_logout unsets the flag.
C7_AdminOnly ==
    [][\A c \in Clients :
         /\ (AdminOpStep(c) /\ ~FlagSet(c)) =>
                /\ Denied(last')
                /\ ~last'.db
                /\ UNCHANGED <<store, pc, local, openConns>>
         /\ admin_logout(c) => ~session'[c].admin_logged_in]_vars

\* an administrative request is denied while a roster exists and nobody is
\* logged in any more
C7_Witness ==
    /\ last.op = "delete_student" /\ last.code = 401
    /\ students # {}
    /\ \A c \in Clients : ~FlagSet(c)

\* C8: admin_login sets the session flag only for the username of an admin
\* row with the password its hash was made from; any other username and
\* password fail and leave the session as it was.
C8_LoginOnlyWithCredentials ==
    [][\A c \in Clients, u \in Usernames, p \in Passwords :
         admin_login(c, u, p) =>
            IF u = ADMIN_USERNAME /\ p = ADMIN_PASSWORD
            THEN session'[c] = [admin_logged_in |-> TRUE, admin_username |-> u]
            ELSE session' = session /\ last'.code # 302]_vars

\* a login has gone through and has set the flag of its session alone
C8_Witness ==
    /\ last.op = "admin_login" /\ last.code = 302
    /\ {c \in Clients : FlagSet(c)} = Staff

\* the range of dates the specification gives for a period token
ClaimedRange(period, today) ==
    IF period.word = "today" THEN Range(today, today)
    ELSE IF period.word = "week" THEN Range(AddDays(today, -7), today)
    ELSE IF period.word = "month" THEN Range([today EXCEPT !.d = 1], today)
    ELSE IF period.word = "all" THEN NoRange
    ELSE IF /\ period.word = ""
            /\ Len(period.parts) = 2
            /\ period.parts[1] \in 1..9999
            /\ period.parts[2] \in 1..12
    THEN Range([y |-> period.parts[1], m |-> period.parts[2], d |-> 1],
               [y |-> period.parts[1], m |-> period.parts[2],
                d |-> DaysInMonth(period.parts[1], period.parts[2])])
    ELSE Range(today, today)

\* C9: the report holds exactly the complaints whose creation date in the
\* regional timezone lies in the range of the period token.
C9_ReportSelectsRange ==
    [][\A c \in Clients, period \in Periods :
         (download_complaints(c, period) /\ FlagSet(c)) =>
            LET range == ClaimedRange(period, RegionalDate(now))
            IN last'.rows =
                 {x.id : x \in {y \in complaints :
                     range.all \/ DateBetween(RegionalDate(y.created_at),
                                              range.start, range.end)}}]_vars

\* C10: no handler that has returned leaves a store connection open.
C10_ConnectionsClosed == openConns = Cardinality(InFlight)

\* C11: in every reachable state, interleavings of submit_complaint with a
\* concurrent delete_student included, the student number of each stored
\* complaint is the student number of a student in the roster.
C11_NoOrphanedComplaint ==
    \A x \in complaints : InRoster(x.student_number)

====
